---------------------------- MODULE Spec2Model ----------------------------
(***************************************************************************)
(* Model of the feature routes of ogcapi (src/src/features/routes/items.rs) *)
(* handle_items: query parsing, filter assembly, count round trip,         *)
(*               pagination links, page round trip.                        *)
(* handle_item:  single feature read and the transactional writes.         *)
(* The two handlers run as independent tasks against one feature store;    *)
(* every `.await` on the store is a step at which the other task may run.  *)
(***************************************************************************)
EXTENDS Integers, Sequences, FiniteSets, TLC

(***************************************************************************)
(* Bounds of the model                                                     *)
(***************************************************************************)
\* largest limit a request carries
MaxLimit == 2
\* largest offset a request carries
MaxOffset == 3
\* features initially stored in collection "parks" (ids 1..NumParks)
NumParks == 2
\* largest offset the link-following client requests
MaxWalkOffset == 4

(***************************************************************************)
(* Option<T>: None is the empty sequence, Some(x) the one-element sequence *)
(***************************************************************************)
None == <<>>
Some(x) == <<x>>
IsSome(o) == o # <<>>
Unwrap(o) == o[1]

\* the elements of a sequence
Range(s) == {s[i] : i \in 1..Len(s)}

(***************************************************************************)
(* CRS codes and str::parse::<i32>                                         *)
(* A code is a sequence of characters.                                     *)
(***************************************************************************)
DigitValue(c) ==
    CASE c = "0" -> 0 [] c = "1" -> 1 [] c = "2" -> 2 [] c = "3" -> 3
      [] c = "4" -> 4 [] c = "5" -> 5 [] c = "6" -> 6 [] c = "7" -> 7
      [] c = "8" -> 8 [] c = "9" -> 9 [] OTHER -> 0 - 1

RECURSIVE ParseDigits(_, _)
\* the value of a digit string read left to right from accumulator acc; None on a non-digit
ParseDigits(s, acc) ==
    IF s = <<>> THEN Some(acc)
    ELSE IF DigitValue(Head(s)) < 0 THEN None
    ELSE ParseDigits(Tail(s), acc * 10 + DigitValue(Head(s)))

\* code.parse::<i32>(): optional sign, then at least one digit, digits only
ParseI32(s) ==
    IF s = <<>> THEN None
    ELSE IF Head(s) \in {"+", "-"}
         THEN IF Tail(s) = <<>> THEN None
              ELSE LET r == ParseDigits(Tail(s), 0)
                   IN  IF ~IsSome(r) THEN None
                       ELSE IF Head(s) = "-" THEN Some(0 - Unwrap(r)) ELSE r
         ELSE ParseDigits(s, 0)

\* CRS::default(): the default CRS has code "4326"
CRSDefault == [code |-> <<"4", "3", "2", "6">>]

(***************************************************************************)
(* Query (items.rs 11-20) and the raw query string                         *)
(* A raw query string is a sequence of <<key, value>> pairs.  Values are   *)
(* kept typed: an integer for limit, offset and datetime, a sequence of    *)
(* coordinates for bbox, a CRS record for bbox_crs and crs.                *)
(***************************************************************************)
\* the field names serde accepts (deny_unknown_fields, no rename attribute)
QueryFields == {"limit", "offset", "bbox", "bbox_crs", "datetime", "crs"}

\* the value of the first pair of raw with this key, as an Option
Lookup(raw, key) ==
    IF \E i \in 1..Len(raw) : raw[i][1] = key
    THEN Some(raw[CHOOSE i \in 1..Len(raw) :
                     /\ raw[i][1] = key
                     /\ \A j \in 1..(i - 1) : raw[j][1] # key][2])
    ELSE None

\* req.query(): fails when a key is not a field of Query
ParseQuery(raw) ==
    IF \E i \in 1..Len(raw) : raw[i][1] \notin QueryFields
    THEN [ok |-> FALSE, q |-> None]
    ELSE [ok |-> TRUE,
          q  |-> Some([limit    |-> Lookup(raw, "limit"),
                       offset   |-> Lookup(raw, "offset"),
                       bbox     |-> Lookup(raw, "bbox"),
                       bbox_crs |-> Lookup(raw, "bbox_crs"),
                       datetime |-> Lookup(raw, "datetime"),
                       crs      |-> Lookup(raw, "crs")])]

\* one "key=value" component when the field is present
Component(key, opt) == IF IsSome(opt) THEN <<<<key, Unwrap(opt)>>>> ELSE <<>>

\* Query::to_string
QueryToString(q) ==
    Component("limit", q.limit) \o Component("offset", q.offset)
      \o Component("bbox", q.bbox) \o Component("bboxCrs", q.bbox_crs)
      \o Component("datetime", q.datetime) \o Component("crs", q.crs)

\* Query::to_string_with_offset
ToStringWithOffset(q, offset) == QueryToString([q EXCEPT !.offset = Some(offset)])

\* bbox.remove(i) with a zero-based index
RemoveAt(s, i) == [k \in 1..(Len(s) - 1) |-> IF k <= i THEN s[k] ELSE s[k + 1]]

\* the 3d bbox reduced to 2d: remove(5) then remove(2)
Downgrade(bbox) == IF Len(bbox) = 6 THEN RemoveAt(RemoveAt(bbox, 5), 2) ELSE bbox

\* the output crs taken for the CRS of the bbox
EnvelopeCrsFromOutput(q) == IF IsSome(q.crs) THEN Unwrap(q.crs) ELSE CRSDefault

\* the CRS whose code gives the envelope's srid
EnvelopeCrs(q) == IF IsSome(q.bbox_crs) THEN Unwrap(q.bbox_crs) ELSE CRSDefault

\* a bbox of more than 4 elements taken for a 2d bbox
IsBox2dLoose(bbox) == Len(bbox) >= 4

\* bbox.len() == 4
IsBox2d(bbox) == Len(bbox) = 4

\* Query::make_envelope: panics when the bbox CRS code does not parse (expect),
\* else Some(<<xmin, ymin, xmax, ymax, srid>>) for a 4-element reduced bbox, else None
MakeEnvelope(q) ==
    IF ~IsSome(q.bbox) THEN [panic |-> FALSE, env |-> None]
    ELSE LET srid == ParseI32(EnvelopeCrs(q).code)
             bbox == Downgrade(Unwrap(q.bbox))
         IN  IF ~IsSome(srid) THEN [panic |-> TRUE, env |-> None]
             ELSE IF IsBox2d(bbox)
                  THEN [panic |-> FALSE,
                        env |-> Some(<<bbox[1], bbox[2], bbox[3], bbox[4], Unwrap(srid)>>)]
                  ELSE [panic |-> FALSE, env |-> None]

(***************************************************************************)
(* The statement handle_items assembles (items.rs 193-232).  A statement   *)
(* is the sequence of its clauses, each [kw, arg] with arg the numbers     *)
(* formatted into the clause.                                              *)
(***************************************************************************)
Clause(kw, arg) == [kw |-> kw, arg |-> arg]

\* the re-projection srid: crs.code.parse::<i32>().unwrap_or(4326), 4326 without crs
OutputSrid(q) ==
    IF IsSome(q.crs)
    THEN LET r == ParseI32(Unwrap(q.crs).code) IN IF IsSome(r) THEN Unwrap(r) ELSE 4326
    ELSE 4326

\* the first element of the sql vector: SELECT ... FROM data.features WHERE collection = $1
BaseSql(q) ==
    <<Clause("SELECT", <<OutputSrid(q)>>), Clause("WHERE collection = $1", <<>>)>>

\* sql.push(format!("WHERE geometry && {}", envelop))
EnvelopeClause(env) == Clause("WHERE geometry &&", env)

\* the filter statement, built once make_envelope has returned
FilterSql(q, env) ==
    IF IsSome(q.bbox) /\ IsSome(env)
    THEN BaseSql(q) \o <<EnvelopeClause(Unwrap(env))>>
    ELSE BaseSql(q)

\* the LIMIT clause left out
PageSqlNoLimit(sql, limit, offset) ==
    sql \o <<Clause("ORDER BY id", <<>>), Clause("OFFSET", <<offset>>)>>

\* the clauses pagination pushes: ORDER BY id, LIMIT limit, OFFSET offset
PageSql(sql, limit, offset) ==
    sql \o <<Clause("ORDER BY id", <<>>), Clause("LIMIT", <<limit>>),
             Clause("OFFSET", <<offset>>)>>

(***************************************************************************)
(* Pagination links (items.rs 216-256)                                     *)
(***************************************************************************)
Link(rel, url) == [rel |-> rel, href |-> url]

\* url.set_query(Some(..))
SetQuery(url, raw) == [url EXCEPT !.query = raw]

\* a boundary slip: the page at offset = limit gets no previous link
PreviousCondStrict(offset, limit) == offset # 0 /\ offset > limit

\* offset != 0 && offset >= limit
PreviousCond(offset, limit) == offset # 0 /\ offset >= limit

\* !x on an isize: the bitwise complement
BitNot(x) == 0 - x - 1

\* (v as u64) >= n for a row count n (below 2^63): a negative v wraps to v + 2^64,
\* which is at least 2^63
AsU64GreaterEq(v, n) == IF v < 0 THEN TRUE ELSE v >= n

\* !(offset + limit) as u64 >= number_matched: the complement binds before the cast
NextCond(offset, limit, n) == AsU64GreaterEq(BitNot(offset + limit), n)

\* the links vector after the pagination block, with offset already defaulted
PaginationLinks(url, q, n) ==
    LET self == <<Link("self", url)>>
    IN  IF ~IsSome(q.limit) THEN self
        ELSE LET limit  == Unwrap(q.limit)
                 offset == Unwrap(q.offset)
                 prev == IF PreviousCond(offset, limit)
                         THEN <<Link("previous",
                                     SetQuery(url, ToStringWithOffset(q, offset - limit)))>>
                         ELSE <<>>
                 next == IF NextCond(offset, limit, n)
                         THEN <<Link("next",
                                     SetQuery(url, ToStringWithOffset(q, offset + limit)))>>
                         ELSE <<>>
             IN  self \o prev \o next

\* if query.offset.is_none() { query.offset = Some(0) }, inside the limit branch
DefaultOffset(q) ==
    IF IsSome(q.limit) /\ ~IsSome(q.offset) THEN [q EXCEPT !.offset = Some(0)] ELSE q

\* a default page imposed on a request without limit
FetchSqlDefaultPage(sql, q) ==
    IF IsSome(q.limit) THEN PageSql(sql, Unwrap(q.limit), Unwrap(q.offset))
    ELSE PageSql(sql, 1, 0)

\* the statement of the second round trip
FetchSql(sql, q) ==
    IF IsSome(q.limit) THEN PageSql(sql, Unwrap(q.limit), Unwrap(q.offset)) ELSE sql

(***************************************************************************)
(* The feature store: table data.features as a set of rows                 *)
(* [id, coll, pt, t]; coll is NoCollection for a row stored without one.   *)
(***************************************************************************)
NoCollection == "NULL"

Collections == {"parks", "lakes"}

\* identifiers of features
Ids == 1..(NumParks + 1)

\* the rows of the table before any request
InitialRows ==
    {[id |-> i, coll |-> "parks", pt |-> <<i, i>>, t |-> i % 2] : i \in 1..NumParks}
      \cup {[id |-> NumParks + 1, coll |-> "lakes", pt |-> <<0, 0>>, t |-> 1]}

\* the clauses of a statement with this keyword
ClausesOf(sql, kws) == {i \in 1..Len(sql) : sql[i].kw \in kws}

WhereKws == {"WHERE collection = $1", "WHERE geometry &&"}

\* the store rejects a statement with a second WHERE, a negative LIMIT or a negative OFFSET
StoreAccepts(sql) ==
    /\ Cardinality(ClausesOf(sql, WhereKws)) <= 1
    /\ \A i \in ClausesOf(sql, {"LIMIT", "OFFSET"}) : sql[i].arg[1] >= 0

\* geometry && envelope for a point geometry
Intersects(pt, env) ==
    /\ env[1] <= pt[1] /\ pt[1] <= env[3]
    /\ env[2] <= pt[2] /\ pt[2] <= env[4]

\* the rows an accepted statement selects, $1 bound to collection
SelectedRows(table, sql, collection) ==
    {r \in table :
        \A i \in ClausesOf(sql, WhereKws) :
            IF sql[i].kw = "WHERE collection = $1" THEN r.coll = collection
            ELSE Intersects(r.pt, sql[i].arg)}

\* the sequences that list every element of S once
Orderings(S) ==
    {f \in [1..Cardinality(S) -> S] : \A i, j \in 1..Cardinality(S) : i # j => f[i] # f[j]}

\* the orders in which the store may return the rows: by id under ORDER BY id, else any
RowOrders(S, sql) ==
    IF ClausesOf(sql, {"ORDER BY id"}) # {}
    THEN {f \in Orderings(S) : \A i, j \in 1..Cardinality(S) : i < j => f[i].id < f[j].id}
    ELSE Orderings(S)

Min(a, b) == IF a <= b THEN a ELSE b

\* OFFSET then LIMIT applied to the ordered rows
Window(rows, sql) ==
    LET offs == ClausesOf(sql, {"OFFSET"})
        lims == ClausesOf(sql, {"LIMIT"})
        off == IF offs = {} THEN 0 ELSE sql[CHOOSE i \in offs : TRUE].arg[1]
        rest == SubSeq(rows, off + 1, Len(rows))
    IN  IF lims = {} THEN rest
        ELSE SubSeq(rest, 1, Min(Len(rest), sql[CHOOSE i \in lims : TRUE].arg[1]))

\* the result sets the store may return for an accepted statement
FetchAll(table, sql, collection) ==
    {Window(rows, sql) : rows \in RowOrders(SelectedRows(table, sql, collection), sql)}

\* rows_affected() of the statement run by execute: the number of rows it selects
RowsAffected(table, sql, collection) == Cardinality(SelectedRows(table, sql, collection))

(***************************************************************************)
(* Statements of handle_item (items.rs 124-139, 155): the text of each     *)
(* statement reduced to its words and parentheses.                         *)
(***************************************************************************)
ReturningSql == <<"RETURNING", "ST_AsGeoJSON", "(", "geometry", ")">>

InsertSql ==
    <<"INSERT INTO data.features", "(", "id, type, properties, geometry, links", ")",
      "VALUES", "(", "$1, $2, $3", "ST_GeomFromGeoJSON", "(", "$4", ")", "$5", ")">>
      \o ReturningSql

UpdateSql ==
    <<"UPDATE data.features", "SET", "type = $2, properties = $3", "geometry =",
      "ST_GeomFromGeoJSON", "(", "$4", ")", "links = $5", ")", "WHERE id = $1">>
      \o ReturningSql

DeleteSql == <<"DELETE FROM data.features", "WHERE id = $1">>

RECURSIVE Balanced(_, _)
\* every ")" closes an earlier "(" and none stays open
Balanced(tokens, depth) ==
    IF tokens = <<>> THEN depth = 0
    ELSE IF Head(tokens) = "(" THEN Balanced(Tail(tokens), depth + 1)
    ELSE IF Head(tokens) = ")" THEN depth > 0 /\ Balanced(Tail(tokens), depth - 1)
    ELSE Balanced(Tail(tokens), depth)

\* the statement a write method sends
WriteSql(method) ==
    CASE method = "POST" -> InsertSql
      [] method = "PUT" -> UpdateSql
      [] OTHER -> DeleteSql

\* the row a body is stored as
RowOf(body, coll) == [id |-> body.id, coll |-> coll, pt |-> body.pt, t |-> body.t]

\* whether the store executes the statement: its text parses, an INSERT meets no
\* stored row with its id, and fetch_one of an UPDATE finds its row
StatementSucceeds(table, method, id, body) ==
    /\ Balanced(WriteSql(method), 0)
    /\ method = "POST" => \A r \in table : r.id # Unwrap(body).id
    /\ method = "PUT" => \E r \in table : r.id = Unwrap(body).id

\* the table once the transaction's change is committed; the INSERT names no
\* collection column, so its row is stored without a collection
Committed(table, method, id, body) ==
    CASE method = "DELETE" -> {r \in table : r.id # Unwrap(id)}
      [] method = "POST" -> table \cup {RowOf(Unwrap(body), NoCollection)}
      [] OTHER -> {IF r.id = Unwrap(body).id THEN RowOf(Unwrap(body), r.coll) ELSE r :
                      r \in table}

(***************************************************************************)
(* Requests                                                                *)
(***************************************************************************)
Opt(S) == {None} \cup {Some(x) : x \in S}

Limits == Opt((0 - 1)..MaxLimit)

Offsets == Opt((0 - 1)..MaxOffset)

BBoxes == Opt({<<0, 0, 5, 2, 2>>, <<0, 0, 1, 1>>, <<0, 0, 5, 2, 2, 9>>})

BBoxCrss == Opt({[code |-> <<"3", "8", "5", "7">>], [code |-> <<"C", "R", "S", "8", "4">>]})

Datetimes == Opt({1})

OutputCrss == Opt({[code |-> <<"2", "0", "5", "6">>]})

\* the query string a client writes for these parameters
Incoming(limit, offset, bbox, bbox_crs, datetime, crs) ==
    Component("limit", limit) \o Component("offset", offset)
      \o Component("bbox", bbox) \o Component("bbox_crs", bbox_crs)
      \o Component("datetime", datetime) \o Component("crs", crs)

\* every combination of the recognised parameters, one query string with an unknown
\* key and one with the key the links are written with
RawQueries ==
    {Incoming(l, o, b, bc, d, c) :
        l \in Limits, o \in Offsets, b \in BBoxes, bc \in BBoxCrss,
        d \in Datetimes, c \in OutputCrss}
      \cup {<<<<"foo", 0>>>>, <<<<"limit", 1>>, <<"bboxCrs", [code |-> <<"3", "8", "5", "7">>]>>>>}

\* the query strings of the requests that run beside handle_item: every limit and
\* offset, and one request for each outcome of the filter stage
PagingQueries ==
    {Incoming(l, o, None, None, None, None) : l \in Limits, o \in Offsets}
      \cup {<<<<"foo", 0>>>>,
            Incoming(None, None, Some(<<0, 0, 1, 1>>), None, None, None),
            Incoming(None, None, Some(<<0, 0, 5, 2, 2>>),
                     Some([code |-> <<"C", "R", "S", "8", "4">>]), None, None)}

Url(collection, raw) == [path |-> collection, query |-> raw]

\* bodies of POST and PUT requests
Bodies == {[id |-> i, pt |-> <<0, 0>>, t |-> 0] : i \in Ids}

(***************************************************************************)
(* State                                                                   *)
(***************************************************************************)
VARIABLES
    db,         \* the committed rows of data.features
    ipc,        \* handle_items: "idle", "counted", "done" or "failed"
    iurl,       \* handle_items: the request url, [path, query]
    iquery,     \* handle_items: the parsed Query (Option), offset defaulted once counted
    isql,       \* handle_items: the sql vector
    inum,       \* handle_items: number_matched
    ilinks,     \* handle_items: the links vector
    ifeatures,  \* handle_items: the features of the response
    ierr,       \* handle_items: why the request failed, "" when it has not
    idirty,     \* a write was committed between the count and the page round trip
    wpc,        \* handle_item: "idle", "begun", "executed", "done", "failed" or "panicked"
    wreq,       \* handle_item: the request, [method, coll, id, body]
    wops,       \* handle_item: the store operations of the request, <<name, succeeded>> each
    wresp,      \* handle_item: the response body (Option)
    cpc,        \* the paging client: "off", "ready", "waiting" or "stopped"
    pages       \* the paging client: the features received so far

ivars == <<ipc, iurl, iquery, isql, inum, ilinks, ifeatures, ierr, idirty>>
wvars == <<wpc, wreq, wops, wresp>>
cvars == <<cpc, pages>>
vars == <<db, ivars, wvars, cvars>>

NoUrl == Url("", <<>>)
NoRequest == [method |-> "", coll |-> "", id |-> None, body |-> None]

Init ==
    /\ db = InitialRows
    /\ ipc = "idle" /\ iurl = NoUrl /\ iquery = None /\ isql = <<>> /\ inum = 0
    /\ ilinks = <<>> /\ ifeatures = <<>> /\ ierr = "" /\ idirty = FALSE
    /\ wpc = "idle" /\ wreq = NoRequest /\ wops = <<>> /\ wresp = None
    /\ cpc = "off" /\ pages = <<>>

(***************************************************************************)
(* handle_items                                                            *)
(***************************************************************************)
\* the request ends with an error before any response is built
ItemsFail(url, q, sql, err) ==
    /\ ipc' = "failed" /\ iurl' = url /\ iquery' = q /\ isql' = sql /\ ierr' = err
    /\ inum' = 0 /\ ilinks' = <<>> /\ ifeatures' = <<>> /\ idirty' = FALSE

\* items.rs 187-256: from the request to the state awaiting the page round trip.
\* available: whether the store answers the count round trip.
ItemsCount(url, available) ==
    LET p == ParseQuery(url.query)
    IN  IF ~p.ok THEN ItemsFail(url, None, <<>>, "MalformedQuery")
        ELSE LET q0 == Unwrap(p.q)
                 m == MakeEnvelope(q0)
                 sql == FilterSql(q0, m.env)
                 q == DefaultOffset(q0)
                 n == RowsAffected(db, sql, url.path)
             IN  IF m.panic THEN ItemsFail(url, p.q, BaseSql(q0), "InvalidCrs")
                 ELSE IF ~available THEN ItemsFail(url, p.q, sql, "StoreUnavailable")
                 ELSE IF ~StoreAccepts(sql) THEN ItemsFail(url, p.q, sql, "StoreRejected")
                 ELSE /\ ipc' = "counted" /\ iurl' = url /\ iquery' = Some(q)
                      /\ inum' = n
                      /\ ilinks' = PaginationLinks(url, q, n)
                      /\ isql' = FetchSql(sql, q)
                      /\ ifeatures' = <<>> /\ ierr' = "" /\ idirty' = FALSE

\* no handler holds an outcome it has yet to return: what follows the last await of
\* a handler runs to its return without yielding
NoneSettled == ipc \notin {"done", "failed"} /\ wpc \notin {"done", "failed", "panicked"}

\* a request for the items of a collection arrives, beside handle_item
ItemsStart ==
    /\ ipc = "idle" /\ NoneSettled
    /\ cpc = "off"
    /\ \E collection \in Collections, raw \in PagingQueries, available \in BOOLEAN :
          ItemsCount(Url(collection, raw), available)
    /\ UNCHANGED <<db, wvars, cvars>>

\* a request for the items of a collection arrives, with any query string
ItemsStartAny ==
    /\ ipc = "idle" /\ NoneSettled
    /\ cpc = "off"
    /\ \E collection \in Collections, raw \in RawQueries, available \in BOOLEAN :
          ItemsCount(Url(collection, raw), available)
    /\ UNCHANGED <<db, wvars, cvars>>

\* items.rs 258-277: the page round trip and the response
ItemsPage ==
    /\ ipc = "counted" /\ NoneSettled
    /\ \E available \in BOOLEAN :
          IF ~available
          THEN /\ ipc' = "failed" /\ ierr' = "StoreUnavailable" /\ ifeatures' = <<>>
          ELSE IF ~StoreAccepts(isql)
          THEN /\ ipc' = "failed" /\ ierr' = "StoreRejected" /\ ifeatures' = <<>>
          ELSE /\ \E rows \in FetchAll(db, isql, iurl.path) : ifeatures' = rows
               /\ ipc' = "done" /\ ierr' = ""
    /\ UNCHANGED <<db, iurl, iquery, isql, inum, ilinks, idirty, wvars, cvars>>

\* the response or the error has been handed to the caller
ItemsReturn ==
    /\ ipc \in {"done", "failed"}
    /\ cpc = "off"
    /\ ipc' = "idle" /\ iurl' = NoUrl /\ iquery' = None /\ isql' = <<>> /\ inum' = 0
    /\ ilinks' = <<>> /\ ifeatures' = <<>> /\ ierr' = "" /\ idirty' = FALSE
    /\ UNCHANGED <<db, wvars, cvars>>

(***************************************************************************)
(* handle_item                                                             *)
(***************************************************************************)
\* items.rs 97-101: the id path parameter is read for every method but POST
\* the requests of the model: a GET for every collection and id; the writes, which
\* never use the collection, for one collection; a PUT whose body carries the id of its path
ItemRequests ==
    {[method |-> "GET", coll |-> c, id |-> Some(i), body |-> None] :
        c \in Collections, i \in Ids}
      \cup {[method |-> "DELETE", coll |-> "parks", id |-> Some(i), body |-> None] : i \in Ids}
      \cup {[method |-> "POST", coll |-> "parks", id |-> None, body |-> Some(b)] : b \in Bodies}
      \cup {[method |-> "PUT", coll |-> "parks", id |-> Some(b.id), body |-> Some(b)] :
               b \in Bodies}

\* items.rs 167-183: the feature with its self and collection links; id.unwrap()
\* panics when the request carries no id
Decorate(req, featureId) ==
    IF ~IsSome(req.id) THEN [panic |-> TRUE, body |-> None]
    ELSE [panic |-> FALSE,
          body |-> Some([id |-> featureId,
                         links |-> <<Link("self", [path |-> req.coll, item |-> req.id]),
                                     Link("collection", [path |-> req.coll, item |-> None])>>])]

\* the error of the statement dropped
AfterStatementUnchecked(ok) == "executed"

\* the handler's position after the statement: `?` returns when it failed
AfterStatement(ok) == IF ok THEN "executed" ELSE "failed"

\* the handler's position after begin: `?` returns when it failed
AfterBegin(ok) == IF ok THEN "begun" ELSE "failed"

\* items.rs 109-120 and 167-183: a GET is one fetch_one and the decoration
ItemGet ==
    /\ wpc = "idle" /\ NoneSettled
    /\ cpc = "off"
    /\ \E req \in ItemRequests, available \in BOOLEAN :
          /\ req.method = "GET"
          /\ wreq' = req
          /\ LET found == {r \in db : r.coll = req.coll /\ r.id = Unwrap(req.id)}
                 d == Decorate(req, Unwrap(req.id))
             IN  IF ~available \/ found = {}
                 THEN wpc' = "failed" /\ wresp' = None
                 ELSE /\ wpc' = IF d.panic THEN "panicked" ELSE "done"
                      /\ wresp' = d.body
    /\ wops' = <<>>
    /\ UNCHANGED <<db, ivars, cvars>>

\* items.rs 122, 141, 153: a write request reads its body (POST, PUT) and begins
\* a transaction
ItemBegin ==
    /\ wpc = "idle" /\ NoneSettled
    /\ cpc = "off"
    /\ \E req \in ItemRequests, bodyOk \in BOOLEAN, available \in BOOLEAN :
          /\ req.method # "GET"
          /\ req.method = "DELETE" => bodyOk
          /\ ~bodyOk => available
          /\ wreq' = req
          /\ IF ~bodyOk THEN wpc' = "failed" /\ wops' = <<>>
             ELSE wpc' = AfterBegin(available) /\ wops' = <<<<"begin", available>>>>
    /\ wresp' = None
    /\ UNCHANGED <<db, ivars, cvars>>

\* items.rs 142-149, 155-158: the statement inside the transaction; a transaction
\* dropped before commit is rolled back, so the table changes at commit alone
ItemStatement ==
    /\ wpc = "begun" /\ NoneSettled
    /\ \E available \in BOOLEAN :
          LET ok == available /\ StatementSucceeds(db, wreq.method, wreq.id, wreq.body)
          IN  /\ wpc' = AfterStatement(ok)
              /\ wops' = Append(wops, <<"statement", ok>>)
    /\ UNCHANGED <<db, wreq, wresp, ivars, cvars>>

\* items.rs 150, 160-183: commit, then the response
ItemCommit ==
    /\ wpc = "executed" /\ NoneSettled
    /\ \E available \in BOOLEAN :
          /\ wops' = Append(wops, <<"commit", available>>)
          /\ IF ~available
             THEN /\ wpc' = "failed" /\ wresp' = None
                  /\ db' = db
                  /\ idirty' = idirty
             ELSE /\ db' = Committed(db, wreq.method, wreq.id, wreq.body)
                  /\ idirty' = (idirty \/ ipc = "counted")
                  /\ IF wreq.method = "DELETE"
                     THEN wpc' = "done" /\ wresp' = None
                     ELSE LET d == Decorate(wreq, Unwrap(wreq.body).id)
                          IN  /\ wpc' = IF d.panic THEN "panicked" ELSE "done"
                              /\ wresp' = d.body
    /\ UNCHANGED <<wreq, ipc, iurl, iquery, isql, inum, ilinks, ifeatures, ierr, cvars>>

\* the response, the error or the panic has been handed to the caller
ItemReturn ==
    /\ wpc \in {"done", "failed", "panicked"}
    /\ wpc' = "idle" /\ wreq' = NoRequest /\ wops' = <<>> /\ wresp' = None
    /\ UNCHANGED <<db, ivars, cvars>>

Next ==
    \/ ItemsStart
    \/ ItemsPage
    \/ ItemsReturn
    \/ ItemGet
    \/ ItemBegin
    \/ ItemStatement
    \/ ItemCommit
    \/ ItemReturn

Spec == Init /\ [][Next]_vars

\* handle_items alone, over every query string and every subset of the stored rows
InitItems ==
    /\ db \in SUBSET InitialRows
    /\ ipc = "idle" /\ iurl = NoUrl /\ iquery = None /\ isql = <<>> /\ inum = 0
    /\ ilinks = <<>> /\ ifeatures = <<>> /\ ierr = "" /\ idirty = FALSE
    /\ wpc = "idle" /\ wreq = NoRequest /\ wops = <<>> /\ wresp = None
    /\ cpc = "off" /\ pages = <<>>

NextItems ==
    \/ ItemsStartAny
    \/ ItemsPage
    \/ ItemsReturn

SpecItems == InitItems /\ [][NextItems]_vars

(***************************************************************************)
(* The paging client: starts at offset 0 and follows the next link of      *)
(* every response, with no write beside it.                                *)
(***************************************************************************)
\* the first request of a walk: a limit above 0, offset 0 or absent
WalkQueries ==
    {Incoming(Some(l), o, None, bc, None, None) :
        l \in 1..MaxLimit, o \in {None, Some(0)},
        bc \in Opt({[code |-> <<"3", "8", "5", "7">>]})}

\* the links of the response with this relation
LinksOf(rel) == {ilinks[i] : i \in {j \in 1..Len(ilinks) : ilinks[j].rel = rel}}

ClientStart ==
    /\ cpc = "ready" /\ ipc = "idle"
    /\ \E collection \in Collections, raw \in WalkQueries :
          ItemsCount(Url(collection, raw), TRUE)
    /\ cpc' = "waiting"
    /\ UNCHANGED <<db, wvars, pages>>

ClientReceive ==
    /\ cpc = "waiting" /\ ipc \in {"done", "failed"}
    /\ pages' = pages \o ifeatures
    /\ cpc' = "received"
    /\ UNCHANGED <<db, ivars, wvars>>

ClientFollow ==
    /\ cpc = "received" /\ ipc = "done"
    /\ \E link \in LinksOf("next") :
          /\ Unwrap(Lookup(link.href.query, "offset")) <= MaxWalkOffset
          /\ ItemsCount(link.href, TRUE)
    /\ cpc' = "waiting"
    /\ UNCHANGED <<db, wvars, pages>>

InitWalk ==
    /\ db \in SUBSET InitialRows
    /\ ipc = "idle" /\ iurl = NoUrl /\ iquery = None /\ isql = <<>> /\ inum = 0
    /\ ilinks = <<>> /\ ifeatures = <<>> /\ ierr = "" /\ idirty = FALSE
    /\ wpc = "idle" /\ wreq = NoRequest /\ wops = <<>> /\ wresp = None
    /\ cpc = "ready" /\ pages = <<>>

NextWalk ==
    \/ ClientStart
    \/ ItemsPage
    \/ ClientReceive
    \/ ClientFollow

SpecWalk == InitWalk /\ [][NextWalk]_vars

(***************************************************************************)
(* Properties                                                              *)
(***************************************************************************)
\* the parameters as the request carries them
ReqLimit == Lookup(iurl.query, "limit")
ReqOffset == IF IsSome(Lookup(iurl.query, "offset")) THEN Unwrap(Lookup(iurl.query, "offset")) ELSE 0
ReqBBox == Lookup(iurl.query, "bbox")
ReqBBoxCrs == Lookup(iurl.query, "bbox_crs")
ReqDatetime == Lookup(iurl.query, "datetime")

\* the pagination block has run for the request in hand
LinksBuilt == ilinks # <<>>

\* the offset a link points to
TargetOffset(link) == Unwrap(Lookup(link.href.query, "offset"))

\* C1: with a limit, a next link is emitted iff offset + limit < number_matched, and
\* it points to offset + limit.
C1_NextLinkIff ==
    (LinksBuilt /\ IsSome(ReqLimit)) =>
        /\ (LinksOf("next") # {}) <=> (ReqOffset + Unwrap(ReqLimit) < inum)
        /\ \A link \in LinksOf("next") : TargetOffset(link) = ReqOffset + Unwrap(ReqLimit)

\* C2: with a limit, a previous link is emitted iff offset != 0 and offset >= limit,
\* and it points to offset - limit; none is emitted when 0 < offset < limit.
C2_PreviousLinkIff ==
    (LinksBuilt /\ IsSome(ReqLimit)) =>
        /\ (LinksOf("previous") # {}) <=>
              (ReqOffset # 0 /\ ReqOffset >= Unwrap(ReqLimit))
        /\ \A link \in LinksOf("previous") :
              TargetOffset(link) = ReqOffset - Unwrap(ReqLimit)
        /\ (0 < ReqOffset /\ ReqOffset < Unwrap(ReqLimit)) => LinksOf("previous") = {}

\* a response to limit=1&offset=1 carries a previous link to offset 0
C2_Witness ==
    /\ ipc = "done" /\ ReqLimit = Some(1) /\ Lookup(iurl.query, "offset") = Some(1)
    /\ \E link \in LinksOf("previous") : TargetOffset(link) = 0

\* C3: a response to a request with limit > 0 has number_returned <= limit and
\* number_returned <= number_matched, whatever is committed between the count and
\* the page round trip.
C3_ReturnedWithinLimitAndMatched ==
    (ipc = "done" /\ IsSome(ReqLimit) /\ Unwrap(ReqLimit) > 0) =>
        /\ Len(ifeatures) <= Unwrap(ReqLimit)
        /\ Len(ifeatures) <= inum

\* a page of one feature out of two matched, returned after a write was committed
\* between the two round trips
C3_Witness ==
    /\ ipc = "done" /\ ReqLimit = Some(1) /\ idirty
    /\ Len(ifeatures) = 1 /\ inum = 2

\* the clauses of the request's statement with one of these keywords
StatementClauses(kws) == {isql[i] : i \in ClausesOf(isql, kws)}

\* the stored rows of the requested collection
RowsOfCollection == {r \in db : r.coll = iurl.path}

\* C4 as stated: a response to a request without limit applies no LIMIT/OFFSET, has
\* number_matched = number_returned, and carries no previous or next link.
C4_NoLimitAllReturned ==
    (ipc = "done" /\ ~IsSome(ReqLimit)) =>
        /\ StatementClauses({"LIMIT", "OFFSET"}) = {}
        /\ Range(ifeatures) = RowsOfCollection
        /\ inum = Len(ifeatures)
        /\ LinksOf("previous") = {} /\ LinksOf("next") = {}

\* C4 amended: a response to a request without limit applies no LIMIT/OFFSET, returns
\* every row that matches at the page round trip once, carries no previous or next
\* link, and has number_matched = number_returned unless a write was committed
\* between the count and the page round trip.
C4_NoLimitAllReturnedUnlessWritten ==
    (ipc = "done" /\ ~IsSome(ReqLimit)) =>
        /\ StatementClauses({"LIMIT", "OFFSET"}) = {}
        /\ Range(ifeatures) = RowsOfCollection
        /\ Len(ifeatures) = Cardinality(RowsOfCollection)
        /\ ~idirty => inum = Len(ifeatures)
        /\ LinksOf("previous") = {} /\ LinksOf("next") = {}

\* a response to offset=1 without limit returns both stored features of the collection
C4_Witness ==
    /\ ipc = "done" /\ ~IsSome(ReqLimit) /\ Lookup(iurl.query, "offset") = Some(1)
    /\ Len(ifeatures) = 2 /\ inum = 2 /\ ~idirty

\* the components of a query string other than offset
WithoutOffset(raw) == {raw[i] : i \in {j \in 1..Len(raw) : raw[j][1] # "offset"}}

\* C5: a previous or next link has the url and query of the request except for
\* offset: no other key is added, renamed or dropped and no value changes.
C5_LinksKeepQuery ==
    \A link \in LinksOf("previous") \cup LinksOf("next") :
        /\ link.href.path = iurl.path
        /\ WithoutOffset(link.href.query) = WithoutOffset(iurl.query)

\* the number a CRS code of the model's requests stands for, below 0 when it is none
CodeNumber(code) ==
    CASE code = <<"4", "3", "2", "6">> -> 4326
      [] code = <<"3", "8", "5", "7">> -> 3857
      [] code = <<"2", "0", "5", "6">> -> 2056
      [] OTHER -> 0 - 1

\* the srid the envelope of the request must carry: the bbox CRS code, 4326 without one
ExpectedSrid == IF IsSome(ReqBBoxCrs) THEN CodeNumber(Unwrap(ReqBBoxCrs).code) ELSE 4326

\* the request was parsed and make_envelope has been called with a bbox
EnvelopeStage == ipc # "idle" /\ ierr # "MalformedQuery" /\ IsSome(ReqBBox)

\* C6: for a bbox of 4 or 6 elements with a parseable bbox CRS, the envelope built is
\* (xmin, ymin, xmax, ymax, srid): the bbox itself, or elements 0, 1, 3, 4 of a
\* 6-element bbox, with the srid of bbox_crs (4326 by default), never that of crs.
C6_EnvelopeOfBBox ==
    (EnvelopeStage /\ Len(Unwrap(ReqBBox)) \in {4, 6} /\ ExpectedSrid >= 0) =>
        LET b == Unwrap(ReqBBox)
            box == IF Len(b) = 4 THEN b ELSE <<b[1], b[2], b[4], b[5]>>
        IN  /\ ierr # "InvalidCrs"
            /\ StatementClauses({"WHERE geometry &&"}) =
                  {Clause("WHERE geometry &&", box \o <<ExpectedSrid>>)}

\* the envelope of a 6-element bbox in EPSG:3857 with an output crs of another code
C6_Witness ==
    /\ EnvelopeStage /\ ReqBBox = Some(<<0, 0, 5, 2, 2, 9>>)
    /\ ReqBBoxCrs = Some([code |-> <<"3", "8", "5", "7">>])
    /\ IsSome(Lookup(iurl.query, "crs"))
    /\ StatementClauses({"WHERE geometry &&"}) =
          {Clause("WHERE geometry &&", <<0, 0, 2, 2, 3857>>)}

\* the request in hand is not failed by its bbox: no panic, no envelope in the
\* statement, and the store rejects the statement only for a negative limit or offset
BBoxIgnored ==
    /\ ierr # "InvalidCrs"
    /\ StatementClauses({"WHERE geometry &&"}) = {}
    /\ ierr = "StoreRejected" => (ReqOffset < 0 \/ (IsSome(ReqLimit) /\ Unwrap(ReqLimit) < 0))

\* C7 as stated: a bbox of a length other than 4 or 6 builds no spatial predicate and
\* does not fail the request, whatever bbox_crs is.
C7_BadLengthIgnored ==
    (EnvelopeStage /\ Len(Unwrap(ReqBBox)) \notin {4, 6}) => BBoxIgnored

\* C7 amended: a bbox of a length other than 4 or 6 builds no spatial predicate and
\* does not fail the request, provided bbox_crs is absent or its code parses.
C7_BadLengthIgnoredWithValidCrs ==
    (EnvelopeStage /\ Len(Unwrap(ReqBBox)) \notin {4, 6} /\ ExpectedSrid >= 0) => BBoxIgnored

\* a request with a 5-element bbox in EPSG:3857 is answered with every feature of
\* the collection
C7_Witness ==
    /\ ipc = "done" /\ ReqBBox = Some(<<0, 0, 5, 2, 2>>)
    /\ ReqBBoxCrs = Some([code |-> <<"3", "8", "5", "7">>])
    /\ ~IsSome(ReqLimit) /\ Len(ifeatures) = 2

\* the stored rows that satisfy every filter the request supplies
Matching ==
    {r \in db :
        /\ r.coll = iurl.path
        /\ IsSome(ReqDatetime) => r.t = Unwrap(ReqDatetime)
        /\ (IsSome(ReqBBox) /\ Len(Unwrap(ReqBBox)) \in {4, 6}) =>
              Intersects(r.pt, Downgrade(Unwrap(ReqBBox)))}

\* C8: the rows counted and the rows returned are those of the requested collection
\* that satisfy every supplied filter: collection, envelope and datetime.
C8_FilterIsConjunction ==
    ipc = "done" =>
        /\ inum = Cardinality(Matching)
        /\ Range(ifeatures) \subseteq Matching

\* the store operations of a write, in order
WriteOrder == <<"begin", "statement", "commit">>

\* the operations so far are begin, statement, commit in this order, each after the
\* success of the one before
OrderKept ==
    \A i \in 1..Len(wops) :
        /\ i <= Len(WriteOrder) /\ wops[i][1] = WriteOrder[i]
        /\ i > 1 => wops[i - 1][2]

\* C9: the store operations of an insert, update or delete are begin, statement,
\* commit in this order, each only after the one before succeeded; a request whose
\* begin, statement or commit failed ends in an error, and the stored features
\* change in no step but a successful commit.
C9_TransactionOrder ==
    [][/\ OrderKept'
       /\ (\E i \in 1..Len(wops') : ~wops'[i][2]) => wpc' = "failed"
       /\ db' # db => (Len(wops') = 3 /\ \A i \in 1..3 : wops'[i][2])]_vars

\* a delete whose commit failed: the handler has failed and the table is as stored
C9_Witness ==
    /\ wpc = "failed" /\ wreq.method = "DELETE"
    /\ wops = <<<<"begin", TRUE>>, <<"statement", TRUE>>, <<"commit", FALSE>>>>
    /\ db = InitialRows

\* C10: the walk ends: once the pages received reach the end of the matched
\* features, the response carries no next link for the client to follow.
C10_WalkEnds ==
    (cpc = "received" /\ ipc = "done" /\ ReqOffset + Unwrap(ReqLimit) >= inum) =>
        LinksOf("next") = {}

\* the write transaction of the request in hand has committed
WriteCommitted == Len(wops) = 3 /\ wops[3] = <<"commit", TRUE>>

\* C11: once the write transaction of a request has committed, the handler ends
\* with a success response, never with an abort: an insert or update returns the
\* feature with its self and collection links.
C11_CommittedThenResponds ==
    WriteCommitted =>
        /\ wpc = "done"
        /\ wreq.method \in {"POST", "PUT"} =>
              /\ IsSome(wresp)
              /\ {Unwrap(wresp).links[i].rel : i \in 1..Len(Unwrap(wresp).links)} =
                    {"self", "collection"}

====
